---- MODULE Spec2Model ----
(***************************************************************************)
(* Model of the acquisition-and-feature pipeline of core/data:             *)
(*   fetch.py    Database.fetch_images / save_img / img_path_from_row      *)
(*   feature.py  FeatureExtractor.pre_process, the path scheme,            *)
(*               make_square_with_bb and create_augmented_images           *)
(* Strings are sequences of one-character strings, so that replace, split  *)
(* and concatenation are computed as the code computes them.               *)
(***************************************************************************)
EXTENDS Integers, Sequences, FiniteSets, TLC

VARIABLES
    df0,        \* the manifest handed to fetch_images (after reset_index)
    df,         \* the manifest in memory (rows carry path and feature columns)
    pc,         \* position of the orchestrating thread in fetch_images
    unit,       \* position of every save_img unit
    result,     \* what every future holds
    lastExc,    \* the exception class a unit raised last
    order,      \* the units of the current batch in the order they completed
    fetched,    \* the units of the current batch that called requests.get
    prev,       \* results of the previous completed batch
    dirs,       \* directories on disk
    disk,       \* files on disk: path -> content
    csv,        \* rows persisted at DATASET_PATH
    ex,         \* the last pre_process pass: feature, completed, rows computed;
                \* and the features passed so far
    pq,         \* inputs and outputs of the path scheme
    sq,         \* input and output of make_square_with_bb
    aug,        \* the image tree create_augmented_images walks, and its last run
    workers     \* the size of the worker pool

vars == <<df0, df, pc, unit, result, lastExc, order, fetched, prev, dirs, disk, csv, ex, pq, sq, aug, workers>>
fetchVars == <<df0, df, pc, unit, result, lastExc, order, fetched, prev, dirs, disk, csv, ex, workers>>

----------------------------------------------------------------------------
(* Bounds *)

NumRows == 2          \* rows of the manifest
MaxFeatures == 1      \* distinct features extracted after one fetch
MaxDim == 5           \* largest image width and height given to make_square_with_bb
MaxIndex == 11        \* largest row index given to the path scheme
MaxRuns == 2          \* runs of create_augmented_images over one tree
MaxFiles == 9         \* largest tree create_augmented_images is run over
MaxPool == 1          \* largest worker pool of the termination specification

(* Constants of the program *)

max_workers == 100    \* ThreadPoolExecutor(100)

----------------------------------------------------------------------------
(* Values *)

NaN == <<"NaN">>              \* np.nan
Pending == <<"pending">>      \* a future that is not done
Raised == <<"raised">>        \* a future holding an exception
NoCol == <<"nocol">>          \* the column is not in the frame

\* a file of an image tree: the directory os.walk reports it in, and its name
File(dir, name) == <<dir, name>>

\* no operation of a run of create_augmented_images fails
NoFail == [file |-> File("", <<>>), degree |-> 0, op |-> "none", exc |-> "ok"]

\* no run of create_augmented_images yet, over an empty tree
NoAug == [files |-> <<>>, listing |-> {}, runs |-> 0, mode |-> "", fail |-> NoFail,
          aborted |-> FALSE]

(* core.util.constants *)
IMGDIR_PATH == <<"i", "/">>
FEATURE_DIR_PATH == <<"f">>
PATH_SEP == "/"
DIRNAME_DELIM == "_"

FTS == {"sift", "lbp", "glcm"}

Chars(ft) ==
    CASE ft = "sift" -> <<"s", "i", "f", "t">>
      [] ft = "lbp" -> <<"l", "b", "p">>
      [] ft = "glcm" -> <<"g", "l", "c", "m">>
      [] ft = "db" -> <<"d", "b">>
      [] ft = "" -> <<>>

----------------------------------------------------------------------------
(* str operations *)

Replace(s, old, new) == [i \in 1..Len(s) |-> IF s[i] = old THEN new ELSE s[i]]

Digit(d) == <<"0", "1", "2", "3", "4", "5", "6", "7", "8", "9">>[d + 1]

RECURSIVE Str(_)
Str(n) == IF n < 10 THEN <<Digit(n)>> ELSE Str(n \div 10) \o <<Digit(n % 10)>>

\* the positions of sep in s
Seps(s, sep) == {i \in 1..Len(s) : s[i] = sep}

Max(S) == CHOOSE m \in S : \A x \in S : x <= m
Min(S) == CHOOSE m \in S : \A x \in S : m <= x

\* s.split(sep)[0]: what precedes the first sep
FirstPart(s, sep) == SubSeq(s, 1, Min(Seps(s, sep) \cup {Len(s) + 1}) - 1)

\* len(s.split(sep))
NumParts(s, sep) == Cardinality(Seps(s, sep)) + 1

\* s.split(sep)[-1]: what follows the last sep
LastPart(s, sep) == SubSeq(s, Max(Seps(s, sep) \cup {0}) + 1, Len(s))

\* s.split(sep)[-2]: what lies between the last two seps
SecondLastPart(s, sep) ==
    LET last == Max(Seps(s, sep))
        before == Max((Seps(s, sep) \ {last}) \cup {0})
    IN  SubSeq(s, before + 1, last - 1)

----------------------------------------------------------------------------
(* The path scheme *)

\* fetch.py:114  f"{IMGDIR_PATH}{row['species'].replace(' ', DIRNAME_DELIM)}"
SpeciesDir(row) == IMGDIR_PATH \o Replace(row.species, " ", DIRNAME_DELIM)

\* row[9]: the tenth column of the merged table, the species column
Col9(row) == row.species

\* fetch.py:123  the directory part of `out`
OutDir(row) == IMGDIR_PATH \o Replace(Col9(row), " ", DIRNAME_DELIM)

\* a path scheme that forgets the row index
ImgPathNoIndex(row, index) == OutDir(row) \o <<"/">> \o <<"_", "0", ".", "n", "p", "y">>

\* fetch.py:123-126  out = f"{IMGDIR_PATH}{...}/{index}" ; return out + "_0.npy"
img_path_from_row(row, index) ==
    OutDir(row) \o <<"/">> \o Str(index) \o <<"_", "0", ".", "n", "p", "y">>

\* feature.py:68-73
dirpath_from_ft(feature) ==
    LET out_ft == IF feature = "" THEN "db" ELSE feature
    IN  FEATURE_DIR_PATH \o <<"_">> \o Chars(out_ft) \o <<"/">>

\* feature.py:59-62  (the directory is returned with a trailing separator)
l_dirpath_from_row(row, feature) ==
    dirpath_from_ft(feature) \o SecondLastPart(row.path, PATH_SEP) \o <<PATH_SEP>>

\* feature.py:64-66
path_from_row_ft(row, feature) ==
    l_dirpath_from_row(row, feature) \o LastPart(row.path, PATH_SEP)

----------------------------------------------------------------------------
(* The manifest *)

Species == { <<"a", " ", "b">>, <<"c">> }
URL == <<"u", ".", "j">>
Identifiers == { URL, NaN }        \* an empty cell of the table reads as nan

Units == 0..(NumRows - 1)

InputRow(i, s, id) == [index |-> i, species |-> s, identifier |-> id]

\* the frames setup_dataset can hand over: reset_index gives labels 0..n-1
Manifests ==
    { [p \in 1..NumRows |-> InputRow(p - 1, sp[p], id[p])] :
        sp \in [1..NumRows -> Species], id \in [1..NumRows -> Identifiers] }

NoFeatures == [f \in FTS |-> NoCol]

Row(r, path) ==
    [index |-> r.index, species |-> r.species, identifier |-> r.identifier,
     path |-> path, ft |-> NoFeatures]

Frame(m) == [p \in 1..Len(m) |-> Row(m[p], NoCol)]

\* a dropna that keeps every row
KeepAll(d) == d

RECURSIVE dropna(_)
\* fetch.py:171  df.dropna(subset=['path'], inplace=True): rows whose path is
\* not nan, in order, labels untouched
dropna(d) ==
    IF d = <<>> THEN <<>>
    ELSE (IF Head(d).path # NaN THEN <<Head(d)>> ELSE <<>>) \o dropna(Tail(d))

UnitRow(u) == df0[u + 1]
UnitPath(u) == img_path_from_row(UnitRow(u), u)

----------------------------------------------------------------------------
(* Database.fetch_images: the orchestrating thread and the save_img units *)

NoRun == [u \in Units |-> Pending]

NoPass == [feature |-> "", completed |-> FALSE, cause |-> "none", computed |-> {}, seen |-> {}]

Done(u) == unit[u] = "done"
AllDone == \A u \in Units : Done(u)
SomeDone == \E u \in Units : Done(u)
\* a pool whose workers are never given back
NeverReleased == {u \in Units : unit[u] # "queued"}

\* the units a worker is busy with: a worker that has finished a unit takes
\* the next one from the queue
Running == {u \in Units : unit[u] \notin {"queued", "done"}}

\* a makedirs that fails whenever the directory is there
makedirs_strict(ds, path, exist_ok) ==
    IF path \in ds THEN [dirs |-> ds, raised |-> TRUE]
    ELSE [dirs |-> ds \cup {path}, raised |-> FALSE]

\* os.makedirs(path, exist_ok): FileExistsError when the directory is there,
\* unless exist_ok
makedirs(ds, path, exist_ok) ==
    IF path \in ds /\ ~exist_ok THEN [dirs |-> ds, raised |-> TRUE]
    ELSE [dirs |-> ds \cup {path}, raised |-> FALSE]

\* os.path.exists(path) for a file
Exists(path) == path \in DOMAIN disk

\* an existence check that never finds the file
ExistsNever(path) == FALSE

\* fetch.py:141  `if not os.path.exists(path)` decides between download and reuse
Cached(path) == Exists(path)

WriteFile(path, content) ==
    [q \in DOMAIN disk \cup {path} |-> IF q = path THEN content ELSE disk[q]]

Finish(u, res) ==
    /\ unit' = [unit EXCEPT ![u] = "done"]
    /\ result' = [result EXCEPT ![u] = res]
    /\ order' = Append(order, u)

\* requests.get calls of the current batch
netCalls == Cardinality(fetched)

\* fetch.py:136, 164-165: a fresh pool, one future per row of df.iterrows()
Submit ==
    /\ pc \in {"idle", "done", "aborted"}
    /\ pc' = "waiting"
    /\ df' = Frame(df0)
    /\ unit' = [u \in Units |-> "queued"]
    /\ prev' = IF pc = "done" THEN result ELSE NoRun
    /\ result' = [u \in Units |-> Pending]
    /\ lastExc' = "none"
    /\ order' = <<>>
    /\ fetched' = {}
    /\ ex' = NoPass
    /\ UNCHANGED <<df0, dirs, disk, csv, pq, sq, aug, workers>>

\* a worker takes the oldest queued unit; save_img starts with
\* img_path_from_row, fetch.py:113-119: build the species directory name and
\* test whether it exists
Start(u) ==
    /\ pc = "waiting"
    /\ unit[u] = "queued"
    /\ \A v \in Units : v < u => unit[v] # "queued"
    /\ Cardinality(Running) < workers
    /\ unit' = [unit EXCEPT ![u] = IF SpeciesDir(UnitRow(u)) \in dirs THEN "exists" ELSE "mkdir"]
    /\ UNCHANGED <<df0, df, pc, result, lastExc, order, fetched, prev, dirs, disk, csv, ex, pq, sq, aug, workers>>

\* fetch.py:119  os.makedirs(path, exist_ok=True); what it raises leaves
\* save_img, outside its try block
MkDir(u) ==
    /\ unit[u] = "mkdir"
    /\ LET made == makedirs(dirs, SpeciesDir(UnitRow(u)), TRUE)
       IN  IF made.raised
             THEN /\ Finish(u, Raised)
                  /\ lastExc' = "FileExistsError"
                  /\ dirs' = dirs
             ELSE /\ dirs' = made.dirs
                  /\ unit' = [unit EXCEPT ![u] = "exists"]
                  /\ UNCHANGED <<result, lastExc, order>>
    /\ UNCHANGED <<df0, df, pc, fetched, prev, disk, csv, ex, pq, sq, aug, workers>>

\* fetch.py:120-126 and 139-141, 160-162: the rest of img_path_from_row
\* (row[column].split raises AttributeError on nan, outside save_img's try),
\* then the test whether the image is already on disk
CheckExists(u) ==
    /\ unit[u] = "exists"
    /\ IF UnitRow(u).identifier = NaN
         THEN Finish(u, Raised) /\ lastExc' = "AttributeError"
         ELSE IF Cached(UnitPath(u))
           THEN Finish(u, UnitPath(u)) /\ lastExc' = lastExc
           ELSE /\ unit' = [unit EXCEPT ![u] = "get"]
                /\ UNCHANGED <<result, lastExc, order>>
    /\ UNCHANGED <<df0, df, pc, fetched, prev, dirs, disk, csv, ex, pq, sq, aug, workers>>

\* the except clauses of save_img, fetch.py:150-159
TryErrors == {"Timeout", "RequestException", "ValueError", "OSError", "Exception"}

\* fetch.py:142-159: requests.get, Image.open, pad, resize, asarray, then
\* np.save(path, img). Every exception of the try block is caught and leaves
\* out = nan; an OSError of np.save may leave the file it had begun to write
Download(u) ==
    /\ unit[u] = "get"
    /\ fetched' = fetched \cup {u}
    /\ \/ /\ OutDir(UnitRow(u)) \in dirs
          /\ disk' = WriteFile(UnitPath(u), "npy")
          /\ Finish(u, UnitPath(u))
          /\ lastExc' = lastExc
       \/ /\ \E e \in TryErrors : lastExc' = e
          /\ disk' = disk
          /\ Finish(u, NaN)
       \/ /\ OutDir(UnitRow(u)) \in dirs
          /\ lastExc' = "OSError"
          /\ disk' = WriteFile(UnitPath(u), "partial")
          /\ Finish(u, NaN)
    /\ UNCHANGED <<df0, df, pc, prev, dirs, csv, ex, pq, sq, aug, workers>>

\* a wait that returns when the first unit is done
JoinFirst == SomeDone

\* fetch.py:166  concurrent.futures.wait(futures, return_when=ALL_COMPLETED)
JoinReady == AllDone

Join ==
    /\ pc = "waiting"
    /\ JoinReady
    /\ pc' = "joined"
    /\ UNCHANGED <<df0, df, unit, result, lastExc, order, fetched, prev, dirs, disk, csv, ex, pq, sq, aug, workers>>

\* the result of the unit that completed i-th (as_completed order)
ResultByCompletion(i) == IF i + 1 <= Len(order) THEN result[order[i + 1]] ELSE Pending

\* fetch.py:167-168  paths[i] = futures[i].result()
ResultOf(i) == result[i]

\* fetch.py:170  df['path'] = paths
AssignPaths(d) ==
    [p \in 1..Len(d) |-> [d[p] EXCEPT !.path = ResultOf(p - 1)]]

\* fetch.py:171
DropFailed(d) == dropna(d)

\* fetch.py:167-171: result() re-raises a unit's exception, which leaves
\* fetch_images; otherwise the path column is set and nan rows are dropped
WriteBack ==
    /\ pc = "joined"
    /\ IF \E u \in Units : ResultOf(u) = Raised
         THEN pc' = "aborted" /\ df' = df
         ELSE pc' = "written" /\ df' = DropFailed(AssignPaths(df))
    /\ UNCHANGED <<df0, unit, result, lastExc, order, fetched, prev, dirs, disk, csv, ex, pq, sq, aug, workers>>

\* FeatureExtractor.create_augmented_df with a degrees value that is none of
\* rotate, flip, all: the frame is returned as it is
create_augmented_df(d) == d

\* fetch.py:172-175  augment, df.to_csv(DATASET_PATH), return df
Persist ==
    /\ pc = "written"
    /\ df' = create_augmented_df(df)
    /\ csv' = df'
    /\ pc' = "done"
    /\ UNCHANGED <<df0, unit, result, lastExc, order, fetched, prev, dirs, disk, ex, pq, sq, aug, workers>>

\* fetch.py:99-101: fetch_images returns to setup_dataset, which hands the
\* frame on; the pool, the futures and the rows given to the units are gone
Return ==
    /\ pc = "done"
    /\ pc' = "returned"
    /\ df0' = <<>>
    /\ unit' = [u \in Units |-> "queued"]
    /\ result' = NoRun
    /\ prev' = NoRun
    /\ lastExc' = "none"
    /\ order' = <<>>
    /\ fetched' = {}
    /\ UNCHANGED <<df, dirs, disk, csv, ex, pq, sq, aug, workers>>

----------------------------------------------------------------------------
(* FeatureExtractor.pre_process *)

\* what Image.open and img.save can do in one pass: both succeed on every
\* row ("ok"), or one of them raises on row `at` (the pass ends there)
IoOutcomes(n) ==
    {[at |-> 0, what |-> "ok"]} \cup
    {[at |-> k, what |-> w] : k \in 1..n, w \in {"open_raises", "save_raises"}}

OutcomeAt(io, pos) == IF io.at = pos THEN io.what ELSE "ok"

\* feature.py:34-43: only lbp replaces img by the transform's output; for
\* sift and glcm img stays the image that was opened
Transformed(feature) == IF feature = "lbp" THEN "lbp" ELSE "original"

\* feature.py:34-43: only the lbp branch stores p_new in paths
Records(feature) == feature = "lbp"

\* a save that leaves no file at the path
PutFileNowhere(files, path, content) == files

\* feature.py:49  img.save(p_new)
PutFile(files, path, content) ==
    [q \in DOMAIN files \cup {path} |-> IF q = path THEN content ELSE files[q]]

\* an exception leaves the loop
Raise(acc, cause) == [acc EXCEPT !.raised = TRUE, !.cause = cause]

\* feature.py:48-49  os.makedirs(l_new, exist_ok=True) ; img.save(p_new)
PreProcessSave(acc, pos, feature, outcome, p_new, l_new) ==
    LET made == makedirs(acc.dirs, l_new, TRUE)
    IN  IF made.raised THEN Raise(acc, "FileExistsError")
        ELSE IF outcome = "save_raises"
          THEN Raise([acc EXCEPT !.dirs = made.dirs], "save")
        ELSE [acc EXCEPT !.dirs = made.dirs,
                         !.disk = PutFile(@, p_new, Transformed(feature)),
                         !.computed = @ \cup {pos}]

\* feature.py:32-51, the body of the loop once p_new and l_new are known
PreProcessFile(acc, row, pos, feature, outcome, len, p_new, l_new) ==
    IF p_new \notin DOMAIN acc.disk
      THEN IF outcome = "open_raises"
             THEN Raise(acc, "open")                  \* Image.open(row['path'])
           ELSE IF Records(feature) /\ row.index >= len
             THEN Raise(acc, "IndexError")            \* paths[int(index)] = p_new
           ELSE
             LET recorded == IF Records(feature)
                               THEN [acc.paths EXCEPT ![row.index + 1] = p_new]
                               ELSE acc.paths
             IN  PreProcessSave([acc EXCEPT !.paths = recorded],
                                pos, feature, outcome, p_new, l_new)
      ELSE IF row.index >= len
             THEN Raise(acc, "IndexError")            \* paths[int(index)] = p_new
             ELSE [acc EXCEPT !.paths = [@ EXCEPT ![row.index + 1] = p_new]]

\* feature.py:28-51, one iteration of the loop over df.iterrows(); acc holds
\* the list paths, the disk and whether an exception has left the loop
PreProcessRow(acc, row, pos, feature, outcome, len) ==
    IF acc.raised THEN acc
    ELSE IF NumParts(row.path, PATH_SEP) < 2
      THEN Raise(acc, "IndexError")                   \* split(PATH_SEP)[-2]
    ELSE CHOOSE after \in
           { PreProcessFile(acc, row, pos, feature, outcome, len, p_new, l_new) :
               p_new \in {path_from_row_ft(row, feature)},
               l_new \in {l_dirpath_from_row(row, feature)} } : TRUE

RECURSIVE PreProcessLoop(_, _, _, _, _)
PreProcessLoop(acc, d, pos, feature, io) ==
    IF pos > Len(d) THEN acc
    ELSE CHOOSE end \in
           { PreProcessLoop(next, d, pos + 1, feature, io) :
               next \in {PreProcessRow(acc, d[pos], pos, feature, OutcomeAt(io, pos), Len(d))} } : TRUE

\* feature.py:27  paths = np.full(len(df.index), fill_value=np.nan).tolist()
PassStart ==
    [paths |-> [p \in 1..Len(df) |-> NaN], disk |-> disk, dirs |-> dirs,
     computed |-> {}, raised |-> FALSE, cause |-> "none"]

\* an assignment that also overwrites the path column
AssignFeatureAndPath(d, feature, paths) ==
    [p \in 1..Len(d) |-> [d[p] EXCEPT !.ft[feature] = paths[p], !.path = paths[p]]]

\* feature.py:52  df[feature] = paths  (a list is assigned by position)
AssignFeature(d, feature, paths) ==
    [p \in 1..Len(d) |-> [d[p] EXCEPT !.ft[feature] = paths[p]]]

\* feature.py:25-54  pre_process(df, feature) on the frame setup_dataset returned
PreProcess(feature) ==
    /\ pc = "returned"
    /\ Cardinality(ex.seen \cup {feature}) <= MaxFeatures
    /\ \E io \in IoOutcomes(Len(df)) :
         \E end \in {PreProcessLoop(PassStart, df, 1, feature, io)} :
             /\ disk' = end.disk
             /\ dirs' = end.dirs
             /\ df' = IF end.raised THEN df ELSE AssignFeature(df, feature, end.paths)
             /\ csv' = IF end.raised THEN csv ELSE df'         \* feature.py:53
             /\ ex' = [feature |-> feature, completed |-> ~end.raised,
                       cause |-> end.cause, computed |-> end.computed,
                       seen |-> ex.seen \cup {feature}]
    /\ UNCHANGED <<df0, pc, unit, result, lastExc, order, fetched, prev, pq, sq, aug, workers>>

----------------------------------------------------------------------------

\* FeatureExtractor.__init__ / _mk_ft_dirs and setup_dataset:65-66 have made
\* the roots; the caches are empty
\* the pipeline before its first run, on manifest m
InitPipeline(m) ==
    /\ df0 = m
    /\ df = Frame(df0)
    /\ pc = "idle"
    /\ unit = [u \in Units |-> "queued"]
    /\ result = [u \in Units |-> Pending]
    /\ lastExc = "none"
    /\ order = <<>>
    /\ fetched = {}
    /\ prev = NoRun
    /\ dirs = {IMGDIR_PATH} \cup {dirpath_from_ft(f) : f \in FTS}
    /\ disk = <<>>
    /\ csv = <<>>
    /\ ex = NoPass
    /\ pq = <<>>
    /\ sq = <<>>

Init ==
    /\ \E m \in Manifests : InitPipeline(m)
    /\ aug = NoAug
    /\ workers = max_workers

Next ==
    \/ Submit
    \/ \E u \in Units : Start(u)
    \/ \E u \in Units : MkDir(u)
    \/ \E u \in Units : CheckExists(u)
    \/ \E u \in Units : Download(u)
    \/ Join
    \/ WriteBack
    \/ Persist
    \/ Return
    \/ \E f \in FTS : PreProcess(f)

Spec == Init /\ [][Next]_vars

----------------------------------------------------------------------------
(* fetch_images with a pool smaller than the manifest *)

\* the pool holds fewer workers than the manifest has rows
InitLive ==
    /\ \E m \in Manifests : InitPipeline(m)
    /\ aug = NoAug
    /\ workers \in 1..MaxPool

NextFetch ==
    \/ Submit
    \/ \E u \in Units : Start(u)
    \/ \E u \in Units : MkDir(u)
    \/ \E u \in Units : CheckExists(u)
    \/ \E u \in Units : Download(u)
    \/ Join
    \/ WriteBack
    \/ Persist
    \/ Return

\* an idle worker takes the next queued unit; a thread that runs save_img
\* keeps running: the file system calls return, requests.get returns or times
\* out (timeout=40); wait returns once every future is done
Fairness ==
    /\ \A u \in Units :
         /\ WF_vars(Start(u))
         /\ WF_vars(MkDir(u))
         /\ WF_vars(CheckExists(u))
         /\ WF_vars(Download(u))
    /\ WF_vars(Join)

SpecLive == InitLive /\ [][NextFetch]_vars /\ Fairness

----------------------------------------------------------------------------
(* The path scheme as a function of (category, index, feature identifier) *)

Categories == { <<"a", " ", "b">>, <<"a", "_", "b">>, <<"c">> }
FeatureIds == FTS \cup {"", "db"}
Triples == [category : Categories, index : 0..MaxIndex, feature : FeatureIds]

\* the canonical image of a record: img_path_from_row
CanonicalPath(t) ==
    img_path_from_row(InputRow(t.index, t.category, URL), t.index)

\* the feature output of a record: path_from_row_ft on the row whose path
\* column holds the canonical path
FeaturePath(t) ==
    path_from_row_ft(Row(InputRow(t.index, t.category, URL), CanonicalPath(t)), t.feature)

ComputePaths ==
    /\ pq = <<>>
    /\ \E t1 \in Triples, t2 \in Triples :
         pq' = [t1 |-> t1, t2 |-> t2,
                c1 |-> CanonicalPath(t1), c2 |-> CanonicalPath(t2),
                p1 |-> FeaturePath(t1), p2 |-> FeaturePath(t2)]
    /\ UNCHANGED fetchVars
    /\ UNCHANGED <<sq, aug>>

\* the pure functions are applied in one fixed state of the pipeline
InitPure == Init /\ df0 = [p \in 1..NumRows |-> InputRow(p - 1, <<"c">>, URL)]

SpecPath == InitPure /\ [][ComputePaths]_vars

----------------------------------------------------------------------------
(* FeatureExtractor.make_square_with_bb *)

Fill == <<"fill">>

Max2(a, b) == IF a >= b THEN a ELSE b

\* an image of x by y pixels, every pixel tagged with its own coordinates
Image(x, y) == [w |-> x, h |-> y, px |-> [c \in (0..(x - 1)) \X (0..(y - 1)) |-> c]]

\* Image.new(mode, (w, h), fill_color)
NewImage(w, h) == [w |-> w, h |-> h, px |-> [c \in (0..(w - 1)) \X (0..(h - 1)) |-> Fill]]

\* new_im.paste(im, (left, upper)): pixels of im that fall inside new_im replace
\* what was there
Paste(canvas, im, left, upper) ==
    [canvas EXCEPT !.px =
        [c \in DOMAIN canvas.px |->
            IF /\ left <= c[1] /\ c[1] < left + im.w
               /\ upper <= c[2] /\ c[2] < upper + im.h
              THEN im.px[<<c[1] - left, c[2] - upper>>]
              ELSE canvas.px[c]]]

\* an offset that is not halved
OffsetWhole(size, extent) == size - extent

\* feature.py:135  int((size - x) / 2)
Offset(size, extent) == (size - extent) \div 2

\* feature.py:131-136
make_square_with_bb(im, min_size) ==
    LET x == im.w
        y == im.h
        size == Max2(min_size, Max2(x, y))
    IN  Paste(NewImage(size, size), im, Offset(size, x), Offset(size, y))

MakeSquare ==
    /\ sq = <<>>
    /\ \E x \in 1..MaxDim, y \in 1..MaxDim, min_size \in 0..(MaxDim + 1) :
         sq' = [x |-> x, y |-> y, min_size |-> min_size,
                out |-> make_square_with_bb(Image(x, y), min_size)]
    /\ UNCHANGED fetchVars
    /\ UNCHANGED <<pq, aug>>

SpecPad == InitPure /\ [][MakeSquare]_vars

----------------------------------------------------------------------------
(* FeatureExtractor.create_augmented_images *)

JPG == <<".", "j", "p", "g">>

\* the originals a tree can hold: two in the top directory (one with two dots
\* in its name) and one in a subdirectory
Originals ==
    { File("d", <<"x", ".", "j">>),
      File("d", <<"y", ".", "z", ".", "j">>),
      File("d/s", <<"x", ".", "j">>) }

\* the content of an image file: the original it stems from and the
\* operations applied to it, in order
Original(f) == [of |-> f, ops |-> <<>>]
Rotated(img, degree) == [img EXCEPT !.ops = Append(@, [op |-> "rotate", degree |-> degree])]
Flipped(img) == [img EXCEPT !.ops = Append(@, [op |-> "flip", degree |-> 0])]

Tree(S) == [f \in S |-> Original(f)]

\* the operations a run in the given mode performs on a file of its listing
Operations(mode) ==
    IF mode = "all" THEN [degree : {0, 90, 180, 270}, op : {"rotate", "flip"}]
    ELSE IF mode = "rotate" THEN [degree : {0, 90, 180, 270}, op : {"rotate"}]
    ELSE IF mode = "flip" THEN [degree : {0}, op : {"flip"}]
    ELSE {}

\* what one run can meet: no failure, or one operation on one file of the
\* listing that raises, an IOError or an exception of another class
Failures(listing, mode) ==
    {NoFail} \cup
    { [file |-> f, degree |-> o.degree, op |-> o.op, exc |-> e] :
        f \in listing, o \in Operations(mode), e \in {"IOError", "Other"} }

\* a handler that catches nothing
CaughtNever(exc) == FALSE

\* feature.py:168, 180  except IOError
Caught(exc) == exc = "IOError"

\* a flip that saves under the name of what it flipped
FlippedNameSame(name) == FirstPart(name, ".") \o JPG

\* feature.py:167  f"{name.split('.')[0]}_{degree}.jpg"
RotatedName(name, degree) == FirstPart(name, ".") \o <<"_">> \o Str(degree) \o JPG

\* feature.py:179  f"{name.split('.')[0]}f.jpg"
FlippedName(name) == FirstPart(name, ".") \o <<"f">> \o JPG

\* Image.save: the file at f now holds img, the other files are as they were
PutImage(files, f, img) == (f :> img) @@ files

\* the try/except of both helpers: Image.open raises an IOError when the file
\* is not there; an IOError is caught, any other exception leaves the walk
Attempt(acc, source, exc, target, img) ==
    LET raised == IF source \notin DOMAIN acc.files THEN "IOError" ELSE exc
    IN  IF raised = "ok" THEN [acc EXCEPT !.files = PutImage(@, target, img)]
        ELSE IF Caught(raised) THEN acc
        ELSE [acc EXCEPT !.aborted = TRUE]

OutcomeOf(fail, f, degree, op) ==
    IF fail.file = f /\ fail.degree = degree /\ fail.op = op THEN fail.exc ELSE "ok"

\* feature.py:158-169
rotate_and_save_image(acc, dir, name, degree, exc) ==
    IF acc.aborted THEN acc
    ELSE Attempt(acc, File(dir, name), exc, File(dir, RotatedName(name, degree)),
                 IF File(dir, name) \in DOMAIN acc.files
                   THEN Rotated(acc.files[File(dir, name)], degree)
                   ELSE Original(File(dir, name)))

\* feature.py:171-181
flip_and_save_image(acc, dir, name, exc) ==
    IF acc.aborted THEN acc
    ELSE Attempt(acc, File(dir, name), exc, File(dir, FlippedName(name)),
                 IF File(dir, name) \in DOMAIN acc.files
                   THEN Flipped(acc.files[File(dir, name)])
                   ELSE Original(File(dir, name)))

RECURSIVE RotateAll(_, _, _, _, _)
\* feature.py:147-150 (flip = TRUE) and 152-153 (flip = FALSE): for i in range(4)
RotateAll(acc, f, i, flip, fail) ==
    IF i = 4 \/ acc.aborted THEN acc
    ELSE LET degree == i * 90
             rotated == rotate_and_save_image(acc, f[1], f[2], degree,
                                              OutcomeOf(fail, f, degree, "rotate"))
             flipped == IF flip /\ ~rotated.aborted
                          THEN flip_and_save_image(rotated, f[1],
                                   FirstPart(f[2], ".") \o <<"_">> \o Str(degree) \o JPG,
                                   OutcomeOf(fail, f, degree, "flip"))
                          ELSE rotated
         IN  RotateAll(flipped, f, i + 1, flip, fail)

\* feature.py:146-155, the body of the loop for one image_name
AugmentFile(acc, f, mode, fail) ==
    IF mode = "all" THEN RotateAll(acc, f, 0, TRUE, fail)
    ELSE IF mode = "rotate" THEN RotateAll(acc, f, 0, FALSE, fail)
    ELSE IF mode = "flip"
      THEN flip_and_save_image(acc, f[1], f[2], OutcomeOf(fail, f, 0, "flip"))
    ELSE acc

RECURSIVE Walk(_, _, _, _)
\* feature.py:144-145: os.walk lists a directory before its files are
\* processed, and derived files are saved in the directory of their source, so
\* the files visited are those present when the walk began
Walk(acc, todo, mode, fail) ==
    IF todo = {} \/ acc.aborted THEN acc
    ELSE LET f == CHOOSE g \in todo : TRUE
         IN  Walk(AugmentFile(acc, f, mode, fail), todo \ {f}, mode, fail)

Modes == {"all", "rotate", "flip"}

\* feature.py:138-155  create_augmented_images(dir_path, degrees), called with
\* the degrees the Database was built with (fetch.py:46); an exception that
\* leaves the walk ends the program
Augment ==
    /\ aug.runs < MaxRuns
    /\ ~aug.aborted
    /\ Cardinality(DOMAIN aug.files) <= MaxFiles
    /\ \E fail \in Failures(DOMAIN aug.files, aug.mode) :
         \E end \in {Walk([files |-> aug.files, aborted |-> FALSE],
                          DOMAIN aug.files, aug.mode, fail)} :
             aug' = [files |-> end.files, listing |-> DOMAIN aug.files,
                     runs |-> aug.runs + 1, mode |-> aug.mode, fail |-> fail,
                     aborted |-> end.aborted]
    /\ UNCHANGED fetchVars
    /\ UNCHANGED <<pq, sq>>

\* the tree holds openable images, one at least; degrees is fixed when the
\* Database is built
InitAug ==
    /\ InitPipeline([p \in 1..NumRows |-> InputRow(p - 1, <<"c">>, URL)])
    /\ workers = max_workers
    /\ \E S \in (SUBSET Originals) \ {{}}, mode \in Modes :
         aug = [NoAug EXCEPT !.files = Tree(S), !.mode = mode]

SpecAug == InitAug /\ [][Augment]_vars

----------------------------------------------------------------------------
(* pre_process over a feature cache that already holds files *)

\* the frame fetch_images returns when every row of m was fetched
Fetched(m) == [p \in 1..Len(m) |-> Row(m[p], img_path_from_row(m[p], m[p].index))]

\* an entry of the feature cache: not there, written by an earlier pass, or
\* there but not readable as an image
CacheStates == {"absent", "valid", "corrupt"}

\* the disk after the fetch, with the entry of row p for feature f in state st[p]
CacheDisk(d, f, st) ==
    LET images == {d[p].path : p \in 1..Len(d)}
        entries == {path_from_row_ft(d[p], f) : p \in {r \in 1..Len(d) : st[r] # "absent"}}
        EntryOf(q) == CHOOSE r \in 1..Len(d) : path_from_row_ft(d[r], f) = q
    IN  [q \in images \cup entries |->
            IF q \in images THEN "npy"
            ELSE IF st[EntryOf(q)] = "valid" THEN Transformed(f) ELSE "corrupt"]

\* setup_dataset has returned a frame in which every row was fetched; the
\* cache of one feature holds entries from before
InitCache ==
    \E sp \in [1..NumRows -> Species], f \in FTS, st \in [1..NumRows -> CacheStates] :
        LET d == Fetched([p \in 1..NumRows |-> InputRow(p - 1, sp[p], URL)])
        IN  /\ df0 = <<>>
            /\ df = d
            /\ pc = "returned"
            /\ unit = [u \in Units |-> "queued"]
            /\ result = NoRun
            /\ lastExc = "none"
            /\ order = <<>>
            /\ fetched = {}
            /\ prev = NoRun
            /\ dirs = {IMGDIR_PATH} \cup {dirpath_from_ft(g) : g \in FTS}
                        \cup {SpeciesDir(d[p]) : p \in 1..Len(d)}
                        \cup {l_dirpath_from_row(d[p], f) : p \in {r \in 1..Len(d) : st[r] # "absent"}}
            /\ disk = CacheDisk(d, f, st)
            /\ csv = d
            /\ ex = NoPass
            /\ pq = <<>>
            /\ sq = <<>>
            /\ aug = NoAug
            /\ workers = max_workers

SpecCache == InitCache /\ [][\E f \in FTS : PreProcess(f)]_vars

----------------------------------------------------------------------------
(* Properties *)

IsPath(v) == v \notin {NaN, Pending, Raised, NoCol}
InBatch == pc \in {"waiting", "joined", "written", "done", "aborted"}
Indices(d) == {d[p].index : p \in 1..Len(d)}

\* the previous batch completed and every one of its units returned a path
PrevAllFetched == \A u \in Units : IsPath(prev[u])

\* C1: when the previous run of fetch_images on this manifest completed with
\* every unit returning a path, the present run calls requests.get for no
\* record, every unit returns the path it returned before, and the frame it
\* builds lists those same paths.
C1_FetchIdempotent ==
    (InBatch /\ PrevAllFetched) =>
        /\ netCalls = 0
        /\ \A u \in Units : unit[u] # "get"
        /\ \A u \in Units : Done(u) => result[u] = prev[u]
        /\ pc # "aborted"
        /\ pc \in {"written", "done"} =>
             /\ Len(df) = NumRows
             /\ \A p \in 1..Len(df) : df[p].path = prev[p - 1]

C1_Witness ==
    /\ pc = "done"
    /\ PrevAllFetched
    /\ \A p \in 1..Len(df) : Exists(df[p].path) /\ disk[df[p].path] = "npy"

\* C2: no exception leaves a save_img unit: every unit that is done holds a
\* path or nan, never an exception, and fetch_images is never left by an
\* exception of a unit.
C2_FailureIsolated ==
    /\ \A u \in Units : result[u] # Raised
    /\ pc # "aborted"

\* C3: once the path column is written, the row at position i holds the
\* result of the unit submitted for that row, in whatever order the units
\* completed, and the rows that remain are in their original order.
C3_ResultCorrespondence ==
    pc \in {"written", "done"} =>
        /\ \A p \in 1..Len(df) : df[p].path = result[df[p].index]
        /\ \A p, q \in 1..Len(df) : p < q => df[p].index < df[q].index

\* the units completed in the reverse of the order they were submitted in
C3_Witness ==
    /\ pc = "written"
    /\ Len(df) = NumRows
    /\ \A k \in 1..NumRows : order[k] = NumRows - k

\* C4: after fetch_images the frame holds exactly the rows whose unit
\* returned a path; every row kept has its original label, its original
\* fields, and a path whose file name starts with that label.
C4_RetainedExactly ==
    pc \in {"written", "done"} =>
        /\ Indices(df) = {u \in Units : IsPath(result[u])}
        /\ Len(df) = Cardinality(Indices(df))
        /\ \A p \in 1..Len(df) :
             /\ IsPath(df[p].path)
             /\ df[p].species = UnitRow(df[p].index).species
             /\ LastPart(df[p].path, "/") = Str(df[p].index) \o <<"_", "0", ".", "n", "p", "y">>

\* the first row was dropped and the second kept
C4_Witness ==
    /\ pc = "done"
    /\ result[0] = NaN
    /\ Len(df) >= 1
    /\ df[1].index = 1

ListedPaths(d) ==
    {d[p].path : p \in 1..Len(d)} \cup {d[p].ft[f] : p \in 1..Len(d), f \in FTS}

\* C5: every path the persisted manifest lists, in the path column or in a
\* feature column, is the path of a file on disk.
C5_ManifestConsistent ==
    \A v \in ListedPaths(csv) : IsPath(v) => Exists(v)

\* a pass has persisted a manifest that lists a feature path
C5_Witness ==
    /\ pc = "returned"
    /\ ex.completed
    /\ \E p \in 1..Len(csv), f \in FTS : IsPath(csv[p].ft[f])

\* C6: two distinct (category, index, feature identifier) triples never get
\* the same path.
C6_PathInjective ==
    pq # <<>> =>
        (pq.t1 # pq.t2 => pq.p1 # pq.p2)

\* the units of the batch that have passed the existence check and write, or
\* have written, their path
Writers == {u \in Units : unit[u] = "get" \/ u \in fetched}

\* C7: within one batch no two units write the same path.
C7_NoWriteRace ==
    \A u, v \in Writers : u # v => UnitPath(u) # UnitPath(v)

\* two units of the same species directory have both written
C7_Witness ==
    /\ pc = "joined"
    /\ \E u, v \in fetched :
         /\ u # v
         /\ OutDir(UnitRow(u)) = OutDir(UnitRow(v))
         /\ IsPath(result[u])
         /\ IsPath(result[v])

\* C8: results are read and the manifest is changed only after every unit is
\* done: past the join all units are done, and while units may still run no
\* step, of a worker or of the orchestrator, changes the frame or the
\* persisted manifest.
C8_BarrierJoin ==
    /\ [](pc \in {"joined", "written"} => AllDone)
    /\ [][pc = "waiting" => (df' = df /\ csv' = csv)]_vars

C8_Witness ==
    /\ pc = "written"
    /\ AllDone
    /\ Len(df) < NumRows
    /\ order[1] # 0

\* C9: a completed pass of pre_process that follows a completed pass for the
\* same feature leaves the frame as it was and computes no file again.
C9_ExtractIdempotent ==
    [][(/\ pc = "returned"
        /\ ex.completed
        /\ ex'.completed
        /\ ex'.feature = ex.feature)
       => (df' = df /\ ex'.computed = {})]_vars

NonFill(im) == {c \in DOMAIN im.px : im.px[c] # Fill}

\* C10: the canvas is square with side max(min_size, x, y); the original
\* pixels appear unchanged as one block inside it, nothing else is painted,
\* and the margins left/right and top/bottom differ by at most one pixel,
\* the smaller one first.
C10_SquarePad ==
    sq # <<>> =>
        LET out == sq.out
            size == Max({sq.min_size, sq.x, sq.y})
            left == Min({c[1] : c \in NonFill(out)})
            top == Min({c[2] : c \in NonFill(out)})
            right == size - 1 - Max({c[1] : c \in NonFill(out)})
            bottom == size - 1 - Max({c[2] : c \in NonFill(out)})
        IN  /\ out.w = size /\ out.h = size
            /\ DOMAIN out.px = (0..(size - 1)) \X (0..(size - 1))
            /\ Cardinality(NonFill(out)) = sq.x * sq.y
            /\ \A i \in 0..(sq.x - 1), j \in 0..(sq.y - 1) :
                 /\ <<left + i, top + j>> \in DOMAIN out.px
                 /\ out.px[<<left + i, top + j>>] = <<i, j>>
            /\ right - left \in {0, 1}
            /\ bottom - top \in {0, 1}
            /\ 2 * left <= size - sq.x /\ size - sq.x <= 2 * left + 1
            /\ 2 * top <= size - sq.y /\ size - sq.y <= 2 * top + 1

\* min_size decides the side and both margins are odd and unequal
C10_Witness ==
    /\ sq # <<>>
    /\ sq.min_size > sq.x
    /\ sq.x > sq.y
    /\ (sq.min_size - sq.x) % 2 = 1
    /\ sq.out.w = sq.min_size

Degrees == {0, 90, 180, 270}

\* the names the spec gives the derived files of original f: the rotation by
\* d degrees, and the flip of that rotation
RotationOf(f, d) == File(f[1], FirstPart(f[2], ".") \o <<"_">> \o Str(d) \o JPG)
FlipOfRotation(f, d) == File(f[1], FirstPart(f[2], ".") \o <<"_">> \o Str(d) \o <<"f">> \o JPG)

\* a run in mode "all" in which no operation failed
CleanAll == aug.mode = "all" /\ aug.fail = NoFail /\ aug.runs >= 1

\* C11: a first run in mode "all" over a tree holding one original, with no
\* operation failing, leaves the original as it was and adds exactly 8 files:
\* its rotations by 0, 90, 180 and 270 degrees and the flip of each rotation.
C11_FanOut ==
    (CleanAll /\ aug.runs = 1 /\ Cardinality(aug.listing) = 1) =>
        \A f \in aug.listing :
            LET derived == {RotationOf(f, d) : d \in Degrees} \cup
                           {FlipOfRotation(f, d) : d \in Degrees}
            IN  /\ DOMAIN aug.files = {f} \cup derived
                /\ Cardinality(derived) = 8
                /\ f \notin derived
                /\ aug.files[f] = Original(f)
                /\ \A d \in Degrees :
                     /\ aug.files[RotationOf(f, d)] = Rotated(Original(f), d)
                     /\ aug.files[FlipOfRotation(f, d)] = Flipped(Rotated(Original(f), d))

\* one original with two dots in its name has been augmented
C11_Witness ==
    /\ aug.runs = 1
    /\ CleanAll
    /\ aug.listing = {File("d", <<"y", ".", "z", ".", "j">>)}
    /\ Cardinality(DOMAIN aug.files) = 9

\* the operation that raised in the last run
FailedAt(f, d, op) == aug.fail.file = f /\ aug.fail.degree = d /\ aug.fail.op = op

\* C16: when one operation of a run in mode "all" raises an IOError, the walk
\* is not left, and for every file of the listing and every degree the
\* rotation is saved unless it is the operation that failed, and the flip of
\* the rotation is saved unless it or the rotation it reads failed.
C16_AugmentIsolated ==
    (aug.runs >= 1 /\ aug.mode = "all" /\ aug.fail.exc = "IOError") =>
        /\ ~aug.aborted
        /\ \A f \in aug.listing : \A d \in Degrees :
             /\ ~FailedAt(f, d, "rotate") => RotationOf(f, d) \in DOMAIN aug.files
             /\ (~FailedAt(f, d, "rotate") /\ ~FailedAt(f, d, "flip"))
                    => FlipOfRotation(f, d) \in DOMAIN aug.files

\* the rotation by 90 degrees of one of three files in two directories failed:
\* its two derived files are missing, those of the later degrees are there
C16_Witness ==
    /\ aug.runs = 1
    /\ aug.mode = "all"
    /\ aug.listing = Originals
    /\ aug.fail.exc = "IOError"
    /\ aug.fail.op = "rotate"
    /\ aug.fail.degree = 90
    /\ RotationOf(aug.fail.file, 90) \notin DOMAIN aug.files
    /\ FlipOfRotation(aug.fail.file, 90) \notin DOMAIN aug.files
    /\ RotationOf(aug.fail.file, 180) \in DOMAIN aug.files
    /\ Cardinality(DOMAIN aug.files) = 3 + 24 - 2

\* the listing of the last run held, for each original, its 8 derived files
AlreadyAugmented ==
    /\ \E f \in aug.listing : aug.files[f] = Original(f)
    /\ \A f \in aug.listing :
         aug.files[f] = Original(f) =>
             \A d \in Degrees :
                 RotationOf(f, d) \in aug.listing /\ FlipOfRotation(f, d) \in aug.listing

\* C20: a run in mode "all" over a tree that was already augmented, with no
\* operation failing, creates no file, and no file stems from a derived one:
\* every file is an original, a rotation of one, or the flip of a rotation.
C20_RerunStable ==
    (CleanAll /\ AlreadyAugmented) =>
        /\ DOMAIN aug.files = aug.listing
        /\ \A g \in DOMAIN aug.files : Len(aug.files[g].ops) <= 2

\* C12: whenever a feature column of the frame holds a path, the file is on
\* disk and holds the output of that feature's transform, not the image that
\* was opened.
C12_FeatureProvenance ==
    \A p \in 1..Len(df) : \A f \in FTS :
        IsPath(df[p].ft[f]) =>
            /\ Exists(df[p].ft[f])
            /\ disk[df[p].ft[f]] = f

\* C13: every path the frame or the persisted manifest lists in its path
\* column is the path of a file that np.save wrote completely; a file left by
\* a failed np.save is never listed.
C13_LocalPathComplete ==
    \A d \in {df, csv} : \A p \in 1..Len(d) :
        IsPath(d[p].path) =>
            /\ Exists(d[p].path)
            /\ disk[d[p].path] = "npy"

\* C14: a pass of pre_process with feature lbp in which neither Image.open
\* nor img.save raised runs to its end, and then every row's lbp column holds
\* the feature path derived from that row's own path.
C14_RowAligned ==
    (pc = "returned" /\ ex.feature = "lbp" /\ ex.cause \notin {"open", "save"}) =>
        /\ ex.completed
        /\ \A p \in 1..Len(df) : df[p].ft["lbp"] = path_from_row_ft(df[p], "lbp")

\* the entry of row p of the frame for feature f is on disk and unreadable
CorruptEntry(p, f) ==
    /\ path_from_row_ft(df[p], f) \in DOMAIN disk
    /\ disk[path_from_row_ft(df[p], f)] = "corrupt"

\* C19: a pass of pre_process over a row whose feature file is on disk but
\* unreadable does not run to its end, and no feature column lists such a
\* file.
C19_CorruptReported ==
    /\ ex.completed => \A p \in 1..Len(df) : ~CorruptEntry(p, ex.feature)
    /\ \A p \in 1..Len(df) : \A f \in FTS :
         IsPath(df[p].ft[f]) => disk[df[p].ft[f]] # "corrupt"

\* unit u found its species directory absent and another worker has created
\* it since
Overtaken(u) == unit[u] = "mkdir" /\ SpeciesDir(UnitRow(u)) \in dirs

\* C17: no makedirs of a fetch worker or of pre_process fails because the
\* directory is there already: no unit and no pass raises FileExistsError,
\* and a worker that was overtaken between its existence check and its
\* makedirs goes on to the next step of save_img.
C17_MkdirRaceSafe ==
    /\ [](lastExc # "FileExistsError" /\ ex.cause # "FileExistsError")
    /\ [][\A u \in Units :
            (Overtaken(u) /\ unit'[u] # unit[u]) =>
                (unit'[u] = "exists" /\ result'[u] = Pending)]_vars

\* two workers found the directory absent; one has created it and gone on,
\* the other is about to call makedirs
C17_Witness ==
    \E u, v \in Units :
        /\ u # v
        /\ Overtaken(u)
        /\ SpeciesDir(UnitRow(v)) = SpeciesDir(UnitRow(u))
        /\ unit[v] = "exists"
        /\ prev = NoRun
        /\ disk = <<>>

\* row r with every column but the feature column f
Except(r, f) ==
    [index |-> r.index, species |-> r.species, identifier |-> r.identifier,
     path |-> r.path, ft |-> [g \in FTS \ {f} |-> r.ft[g]]]

\* the rows of the submitted frame whose unit did not return nan, in order,
\* with the unit's result in the path column
RECURSIVE Kept(_)
Kept(d) ==
    IF d = <<>> THEN <<>>
    ELSE (IF result[Head(d).index] # NaN
            THEN <<[Head(d) EXCEPT !.path = result[Head(d).index]]>>
            ELSE <<>>) \o Kept(Tail(d))

\* C18: a pass of pre_process leaves the number of rows, their order and
\* every column but the one named after its feature as they were; the frame
\* fetch_images builds is the submitted frame with the path column added and
\* exactly the rows whose result is nan removed.
C18_RowFrame ==
    /\ [](pc \in {"written", "done"} => df = Kept(Frame(df0)))
    /\ [][(pc = "returned" /\ pc' = "returned") =>
            /\ Len(df') = Len(df)
            /\ \A p \in 1..Len(df) : Except(df'[p], ex'.feature) = Except(df[p], ex'.feature)]_vars

\* fetch_images dropped the last row, and a pass for lbp has filled the
\* column of the row that remained
C18_Witness ==
    /\ pc = "returned"
    /\ ex.completed
    /\ ex.feature = "lbp"
    /\ Len(df) = NumRows - 1
    /\ \A p \in 1..Len(df) : IsPath(df[p].ft["lbp"]) /\ IsPath(df[p].path)

\* C15: once the units are submitted, every one of them is run to completion
\* and the join returns with every future done, also when the pool has fewer
\* workers than the manifest has rows.
C15_BatchTerminates ==
    (pc = "waiting") ~> (pc = "joined" /\ AllDone /\ \A u \in Units : result[u] # Pending)

\* the join has returned for a batch larger than the pool, every unit having
\* gone to the network
C15_Witness ==
    /\ pc = "joined"
    /\ workers < NumRows
    /\ fetched = Units
    /\ \A u \in Units : result[u] # Pending

====
